---- MODULE Spec2Model ----
(***************************************************************************)
(* go-todo-cli (src/main.go): an interactive command loop over a directory *)
(* "todos" that holds one file per todo.  A file is one flag byte followed *)
(* by the raw title bytes; the id is the file name.                        *)
(*                                                                         *)
(* Bytes are the integers 0..255; strings (titles, file names, input      *)
(* tokens) are sequences of bytes.  A TODOId is modelled by the value of   *)
(* int(id), which is what getFilePath formats into the file name.          *)
(*                                                                         *)
(* The file system is the part of the environment the code branches on:    *)
(* whether os.Getwd works, whether the todos directory exists and accepts  *)
(* new and removed entries, and for every entry whether it is a directory, *)
(* whether it is read-only, and its bytes.  A write to a file that         *)
(* os.Create has opened is taken to store all its bytes (the code does not *)
(* look at the result of file.Write).                                      *)
(***************************************************************************)
EXTENDS Integers, Sequences, FiniteSets, TLC

VARIABLES
    files,       \* the entries of the todos directory: name -> entry
    dirState,    \* "ok", "missing", or "nowrite" (no entry can be added or removed)
    cwdOk,       \* whether os.Getwd succeeds
    pc,          \* "prompt", "selectTodo", "exited", "hung"
    cmd,         \* the action code whose handler is inside getTodoId, else -1
    out,         \* what the last step printed, as a sequence of lines
    exitStatus,  \* the status the process ended with, -1 while it runs
    last         \* the input consumed by the last step

vars == <<files, dirState, cwdOk, pc, cmd, out, exitStatus, last>>

----------------------------------------------------------------------------
(* Bounds and program constants *)

\* data := make([]byte, 64)
ChunkSize == 64

\* rand.Intn(1000)
RandRange == 1000

\* create draws its id from 0..MaxDraw-1 and RandRange-1
MaxDraw == 1

\* typed titles have 0..MaxTitle bytes, or ChunkSize+1 bytes
MaxTitle == 1

\* a directory that is only listed holds todos with ids in 1..MaxListed
MaxListed == 3

----------------------------------------------------------------------------
(* Strings *)

\* a title of n bytes whose bytes differ from place to place (never '\n')
Pattern(n) == [i \in 1..n |-> 97 + (i % 26)]

Str_abc == <<97, 98, 99>>

IsDigit(c) == c \in 48..57

RECURSIVE StripZeros(_)
StripZeros(d) ==
    IF Len(d) > 1 /\ d[1] = 48 THEN StripZeros(Tail(d)) ELSE d

\* the decimal digits of the largest int (2^63 - 1), as digit values
MaxIntDigits == <<9,2,2,3,3,7,2,0,3,6,8,5,4,7,7,5,8,0,7>>

RECURSIVE DigitsGreater(_, _, _)
\* d (ASCII digits) against lim (digit values), both of the same length, from place i
DigitsGreater(d, lim, i) ==
    IF i > Len(d) THEN FALSE
    ELSE IF d[i] - 48 > lim[i] THEN TRUE
    ELSE IF d[i] - 48 < lim[i] THEN FALSE
    ELSE DigitsGreater(d, lim, i + 1)

\* strconv's range error: the magnitude does not fit an int
OutOfRange(d, neg) ==
    LET s == StripZeros(d)
        lim == IF neg THEN [MaxIntDigits EXCEPT ![19] = 8] ELSE MaxIntDigits
    IN Len(s) > Len(lim) \/ (Len(s) = Len(lim) /\ DigitsGreater(s, lim, 1))

RECURSIVE DigitsValue(_, _)
DigitsValue(d, acc) ==
    IF d = <<>> THEN acc ELSE DigitsValue(Tail(d), acc * 10 + (Head(d) - 48))

\* strconv.Atoi: an optional sign, then one or more decimal digits
Atoi(s) ==
    LET signed == Len(s) > 0 /\ s[1] \in {43, 45}
        neg == signed /\ s[1] = 45
        d == IF signed THEN Tail(s) ELSE s
    IN IF Len(d) = 0 \/ \E i \in 1..Len(d) : ~IsDigit(d[i])
       THEN [ok |-> FALSE, val |-> 0]
       ELSE IF OutOfRange(d, neg)
       THEN [ok |-> FALSE, val |-> 0]
       ELSE [ok |-> TRUE,
             val |-> IF neg THEN 0 - DigitsValue(d, 0) ELSE DigitsValue(d, 0)]

RECURSIVE NatDigits(_)
NatDigits(n) ==
    IF n < 10 THEN <<48 + n>> ELSE NatDigits(n \div 10) \o <<48 + (n % 10)>>

\* strconv.Itoa
Itoa(n) == IF n < 0 THEN <<45>> \o NatDigits(0 - n) ELSE NatDigits(n)

\* regexp.MatchString("^([0-9]+)$", name)
MatchDigits(name) == Len(name) > 0 /\ \A i \in 1..Len(name) : IsDigit(name[i])

\* strings.Trim(title, "\n"): leading and trailing newlines removed
RECURSIVE TrimNewlines(_)
TrimNewlines(s) ==
    IF s = <<>> THEN s
    ELSE IF Head(s) = 10 THEN TrimNewlines(Tail(s))
    ELSE IF s[Len(s)] = 10 THEN TrimNewlines(SubSeq(s, 1, Len(s) - 1))
    ELSE s

\* getTodoTitle: one line of input, up to and with its newline, trimmed
getTodoTitle(line) == TrimNewlines(line)

\* byte-wise order of two names, as os.ReadDir sorts them
RECURSIVE NameLess(_, _)
NameLess(a, b) ==
    IF a = <<>> THEN b # <<>>
    ELSE IF b = <<>> THEN FALSE
    ELSE IF Head(a) # Head(b) THEN Head(a) < Head(b)
    ELSE NameLess(Tail(a), Tail(b))

RECURSIVE SortedNames(_)
SortedNames(S) ==
    IF S = {} THEN <<>>
    ELSE LET m == CHOOSE x \in S : \A y \in S \ {x} : NameLess(x, y)
         IN <<m>> \o SortedNames(S \ {m})

----------------------------------------------------------------------------
(* The todos directory *)

RegularFile(bytes, readOnly) == [isDir |-> FALSE, ro |-> readOnly, data |-> bytes]
SubDirectory == [isDir |-> TRUE, ro |-> FALSE, data |-> <<>>]

Exists(fs, name) == name \in DOMAIN fs

\* getFilePath: the entry name that path.Join(dir, strconv.Itoa(int(id))) ends in
getFilePath(id) == Itoa(id)

\* os.Open(filepath) succeeds
CanOpen(fs, ds, name) == ds # "missing" /\ Exists(fs, name)

\* os.Create(filepath) succeeds: a new entry needs a directory that takes
\* entries, an existing one must be a writable regular file
CanCreate(fs, ds, name) ==
    /\ ds # "missing"
    /\ IF Exists(fs, name) THEN ~fs[name].isDir /\ ~fs[name].ro
       ELSE ds = "ok"

\* os.Remove(filepath) succeeds
CanRemove(fs, ds, name) == ds = "ok" /\ Exists(fs, name)

\* file.Read(buf) at offset off with len(buf) = cap
FileRead(entry, off, cap) ==
    IF entry.isDir THEN [n |-> 0, err |-> "EISDIR", bytes |-> <<>>]
    ELSE IF off >= Len(entry.data) THEN [n |-> 0, err |-> "EOF", bytes |-> <<>>]
    ELSE LET n == IF Len(entry.data) - off < cap THEN Len(entry.data) - off ELSE cap
         IN [n |-> n, err |-> "nil", bytes |-> SubSeq(entry.data, off + 1, off + n)]

----------------------------------------------------------------------------
(* Todo: load, save, delete *)

Todo(id, completed, title) == [id |-> id, completed |-> completed, title |-> title]

\* a save that writes the flag as the character '1' or '0'
Encode_AsciiFlag(todo) == <<IF todo.completed THEN 49 ELSE 48>> \o todo.title

\* the bytes save writes: the flag byte, then the title
Encode(todo) == <<IF todo.completed THEN 1 ELSE 0>> \o todo.title

\* a flag read by comparing the whole byte with 0x1
FlagOf_Equality(b) == b = 1

\* completedByte[0]&0x1 == 0x1
FlagOf(b) == (b % 2) = 1

RECURSIVE ReadTitle_StopsOnShortRead(_, _, _)
\* a read loop that takes a chunk that is not full for the end of the file
\* and drops it
ReadTitle_StopsOnShortRead(entry, off, title) ==
    LET r == FileRead(entry, off, ChunkSize)
    IN IF r.err = "EOF" \/ r.n < ChunkSize THEN [ends |-> TRUE, title |-> title]
       ELSE IF r.err # "nil" THEN [ends |-> FALSE, title |-> title]
       ELSE ReadTitle_StopsOnShortRead(entry, off + r.n, title \o r.bytes)

RECURSIVE ReadTitle(_, _, _)
\* the read loop of LoadTodo: it ends only on io.EOF; a read that fails in any
\* other way reads nothing, moves nothing, and is tried again for ever
ReadTitle(entry, off, title) ==
    LET r == FileRead(entry, off, ChunkSize)
    IN IF r.err = "EOF" THEN [ends |-> TRUE, title |-> title]
       ELSE IF r.err # "nil" THEN [ends |-> FALSE, title |-> title]
       ELSE ReadTitle(entry, off + r.n, title \o r.bytes)

\* LoadTodo: res is "ok" (a Todo), "err" (the error of os.Open), "fatal"
\* (log.Fatal in getDirPath) or "hang" (the read loop never ends)
LoadTodo(fs, ds, cwd, id) ==
    LET name == getFilePath(id)
        none == Todo(id, FALSE, <<>>)
    IN IF ~cwd THEN [res |-> "fatal", todo |-> none]
       ELSE IF ~CanOpen(fs, ds, name) THEN [res |-> "err", todo |-> none]
       ELSE LET entry == fs[name]
                first == FileRead(entry, 0, 1)
                completedByte == IF first.n = 1 THEN first.bytes[1] ELSE 0
                rest == ReadTitle(entry, first.n, <<>>)
            IN IF rest.ends
               THEN [res |-> "ok", todo |-> Todo(id, FlagOf(completedByte), rest.title)]
               ELSE [res |-> "hang", todo |-> none]

\* the directory after os.Create and the two writes of save
Written(fs, todo) ==
    LET name == getFilePath(todo.id)
    IN [n \in DOMAIN fs \cup {name} |->
          IF n = name THEN RegularFile(Encode(todo), FALSE) ELSE fs[n]]

\* a save that returns from a failed os.Create instead of ending the process
save_IgnoresCreateError(fs, ds, cwd, todo) ==
    IF ~cwd THEN [res |-> "fatal", fs |-> fs]
    ELSE IF CanCreate(fs, ds, getFilePath(todo.id))
    THEN [res |-> "ok", fs |-> Written(fs, todo)]
    ELSE [res |-> "ok", fs |-> fs]

\* Todo.save: res is "ok" or "fatal" (log.Fatal: no working directory, or
\* os.Create failed)
save(fs, ds, cwd, todo) ==
    IF cwd /\ CanCreate(fs, ds, getFilePath(todo.id))
    THEN [res |-> "ok", fs |-> Written(fs, todo)]
    ELSE [res |-> "fatal", fs |-> fs]

\* a delete that ends the process when os.Remove fails
delete_FatalOnFailure(fs, ds, cwd, todo) ==
    LET name == getFilePath(todo.id)
    IN IF cwd /\ CanRemove(fs, ds, name)
       THEN [res |-> "ok", fs |-> [n \in DOMAIN fs \ {name} |-> fs[n]]]
       ELSE [res |-> "fatal", fs |-> fs]

\* Todo.delete: res is "ok", "failed" (os.Remove failed, which is printed) or
\* "fatal" (log.Fatal in getDirPath)
delete(fs, ds, cwd, todo) ==
    LET name == getFilePath(todo.id)
    IN IF ~cwd THEN [res |-> "fatal", fs |-> fs]
       ELSE IF CanRemove(fs, ds, name)
       THEN [res |-> "ok", fs |-> [n \in DOMAIN fs \ {name} |-> fs[n]]]
       ELSE [res |-> "failed", fs |-> fs]

\* a complete that flips the flag
complete_Toggles(todo) == [todo EXCEPT !.completed = ~@]

\* Todo.complete, Todo.uncomplete, Todo.update
complete(todo) == [todo EXCEPT !.completed = TRUE]
uncomplete(todo) == [todo EXCEPT !.completed = FALSE]
update(todo, title) == [todo EXCEPT !.title = title]

----------------------------------------------------------------------------
(* Output *)

\* one printed line (or prompt): a fixed text, the number and the string
\* formatted into it
Line(text, n, s) == [text |-> text, n |-> n, s |-> s]
Msg(text) == Line(text, 0, <<>>)

Prompt == Msg("> ")
SelectPrompt == Msg("Select todo: ")
FatalLine == Msg("log.Fatal")

\* printHelp: the menu, one line per action code
printHelp ==
    << Msg("Select action:"),
       Line("List all TODOs", 1, <<>>),
       Line("Add new TODO", 2, <<>>),
       Line("Complete TODO", 3, <<>>),
       Line("Uncomplete TODO", 4, <<>>),
       Line("Delete TODO", 5, <<>>),
       Line("List completed TODOs", 6, <<>>),
       Line("List uncompleted TODOs", 7, <<>>),
       Line("Edit TODO", 8, <<>>),
       Line("Show this help", 9, <<>>),
       Line("Exit", 0, <<>>) >>

\* Todo.print
print(todo) == Line("todo", todo.id, todo.title)

\* what a handler leaves behind: the directory, where the process is, its
\* exit status, and what was printed
Outcome(fs, p, st, lines) == [fs |-> fs, pc |-> p, st |-> st, out |-> lines]
Returns(fs, lines) == Outcome(fs, "prompt", -1, lines)
\* log.Fatal: the error is printed and the process exits with status 1
Fatal(fs, lines) == Outcome(fs, "exited", 1, lines \o <<FatalLine>>)
\* the process is inside a loop that never ends
Hangs(fs, lines) == Outcome(fs, "hung", -1, lines)

----------------------------------------------------------------------------
(* Listing *)

RECURSIVE LoadEntries(_, _, _, _, _)
\* the loop of loadAllTodos over the directory entries
LoadEntries(fs, ds, cwd, entries, todos) ==
    IF entries = <<>> THEN [res |-> "ok", todos |-> todos]
    ELSE LET name == Head(entries)
             more == Tail(entries)
         IN IF fs[name].isDir THEN LoadEntries(fs, ds, cwd, more, todos)
            ELSE IF ~MatchDigits(name) THEN LoadEntries(fs, ds, cwd, more, todos)
            ELSE IF ~Atoi(name).ok THEN LoadEntries(fs, ds, cwd, more, todos)
            ELSE LET l == LoadTodo(fs, ds, cwd, Atoi(name).val)
                 IN IF l.res = "err" THEN LoadEntries(fs, ds, cwd, more, todos)
                    ELSE IF l.res = "ok"
                    THEN LoadEntries(fs, ds, cwd, more, Append(todos, l.todo))
                    ELSE [res |-> l.res, todos |-> todos]

\* loadAllTodos: res is "ok", "fatal" (log.Fatal: no working directory, or
\* os.ReadDir failed) or "hang" (a LoadTodo that never returns)
loadAllTodos(fs, ds, cwd) ==
    IF ~cwd \/ ds = "missing" THEN [res |-> "fatal", todos |-> <<>>]
    ELSE LoadEntries(fs, ds, cwd, SortedNames(DOMAIN fs), <<>>)

IsCompleted(todo) == todo.completed
IsUncompleted(todo) == ~todo.completed

\* the lines of one block: its header, then one line per todo
Block(label, todos) ==
    <<Line(label, Len(todos), <<>>)>> \o [i \in 1..Len(todos) |-> print(todos[i])]

RECURSIVE PartitionTodos_Prepends(_, _, _)
\* a partition loop that puts each todo at the front of its bucket
PartitionTodos_Prepends(todos, completedTodos, uncompletedTodos) ==
    IF todos = <<>>
    THEN [completed |-> completedTodos, uncompleted |-> uncompletedTodos]
    ELSE IF Head(todos).completed
    THEN PartitionTodos_Prepends(Tail(todos), <<Head(todos)>> \o completedTodos,
                                 uncompletedTodos)
    ELSE PartitionTodos_Prepends(Tail(todos), completedTodos,
                                 <<Head(todos)>> \o uncompletedTodos)

RECURSIVE PartitionTodos(_, _, _)
\* the loop of listTodos over the loaded todos: each is appended to the
\* completed or to the uncompleted bucket
PartitionTodos(todos, completedTodos, uncompletedTodos) ==
    IF todos = <<>>
    THEN [completed |-> completedTodos, uncompleted |-> uncompletedTodos]
    ELSE IF Head(todos).completed
    THEN PartitionTodos(Tail(todos), Append(completedTodos, Head(todos)),
                        uncompletedTodos)
    ELSE PartitionTodos(Tail(todos), completedTodos,
                        Append(uncompletedTodos, Head(todos)))

\* a listTodos that prints the blank line whenever it prints a block
listTodos_BlankAlways(fs, ds, cwd, includeUncomplete, includeComplete) ==
    LET all == loadAllTodos(fs, ds, cwd)
        buckets == PartitionTodos(all.todos, <<>>, <<>>)
    IN IF all.res = "fatal" THEN Fatal(fs, <<>>)
       ELSE IF all.res = "hang" THEN Hangs(fs, <<>>)
       ELSE Returns(fs,
              (IF includeUncomplete
               THEN Block("uncompleted todos:", buckets.uncompleted) ELSE <<>>)
              \o (IF includeUncomplete \/ includeComplete THEN <<Msg("")>> ELSE <<>>)
              \o (IF includeComplete
                  THEN Block("completed todos:", buckets.completed) ELSE <<>>))

\* a listTodos that clears the sub-directories out of the todos directory
listTodos_Prunes(fs, ds, cwd, includeUncomplete, includeComplete) ==
    LET all == loadAllTodos(fs, ds, cwd)
        buckets == PartitionTodos(all.todos, <<>>, <<>>)
        kept == [n \in {m \in DOMAIN fs : ~fs[m].isDir} |-> fs[n]]
    IN IF all.res = "fatal" THEN Fatal(fs, <<>>)
       ELSE IF all.res = "hang" THEN Hangs(fs, <<>>)
       ELSE Returns(kept,
              (IF includeUncomplete
               THEN Block("uncompleted todos:", buckets.uncompleted) ELSE <<>>)
              \o (IF includeUncomplete /\ includeComplete THEN <<Msg("")>> ELSE <<>>)
              \o (IF includeComplete
                  THEN Block("completed todos:", buckets.completed) ELSE <<>>))

\* listTodos
listTodos(fs, ds, cwd, includeUncomplete, includeComplete) ==
    LET all == loadAllTodos(fs, ds, cwd)
        buckets == PartitionTodos(all.todos, <<>>, <<>>)
        completedTodos == buckets.completed
        uncompletedTodos == buckets.uncompleted
    IN IF all.res = "fatal" THEN Fatal(fs, <<>>)
       ELSE IF all.res = "hang" THEN Hangs(fs, <<>>)
       ELSE Returns(fs,
              (IF includeUncomplete
               THEN Block("uncompleted todos:", uncompletedTodos) ELSE <<>>)
              \o (IF includeUncomplete /\ includeComplete THEN <<Msg("")>> ELSE <<>>)
              \o (IF includeComplete
                  THEN Block("completed todos:", completedTodos) ELSE <<>>))

----------------------------------------------------------------------------
(* The handlers of the id-taking and title-taking commands *)

\* getTodoId, one turn of its loop: the token parses to an id, or it does
\* not and the loop goes round
getTodoId(tok) == [ok |-> Atoi(tok).ok, id |-> Atoi(tok).val]

\* a createTodoItem that stores the line as it was read, newline included
createTodoItem_Untrimmed(fs, ds, cwd, line, id) ==
    LET todo == Todo(id, FALSE, line)
        s == save(fs, ds, cwd, todo)
    IN IF s.res = "fatal" THEN Fatal(fs, <<Msg("title: ")>>)
       ELSE Returns(s.fs, <<Msg("title: "), Line("Saved with id: ", todo.id, <<>>)>>)

\* a createTodoItem that steps to the next id when the drawn one is taken
createTodoItem_AvoidsCollision(fs, ds, cwd, line, id) ==
    LET title == getTodoTitle(line)
        free == IF Exists(fs, getFilePath(id)) THEN (id + 1) % RandRange ELSE id
        todo == Todo(free, FALSE, title)
        s == save(fs, ds, cwd, todo)
    IN IF s.res = "fatal" THEN Fatal(fs, <<Msg("title: ")>>)
       ELSE Returns(s.fs, <<Msg("title: "), Line("Saved with id: ", todo.id, <<>>)>>)

\* createTodoItem, with the line typed and the id rand.Intn drew
createTodoItem(fs, ds, cwd, line, id) ==
    LET title == getTodoTitle(line)
        todo == Todo(id, FALSE, title)
        s == save(fs, ds, cwd, todo)
    IN IF s.res = "fatal" THEN Fatal(fs, <<Msg("title: ")>>)
       ELSE Returns(s.fs, <<Msg("title: "), Line("Saved with id: ", todo.id, <<>>)>>)

\* a changeTodoItemState that does not return on the load error and saves
\* the empty todo it was left with
changeTodoItemState_SavesOnNotFound(fs, ds, cwd, toComplete, id) ==
    LET l == LoadTodo(fs, ds, cwd, id)
        todo == IF toComplete THEN complete(l.todo) ELSE uncomplete(l.todo)
        s == save(fs, ds, cwd, todo)
    IN IF l.res = "fatal" THEN Fatal(fs, <<>>)
       ELSE IF l.res = "hang" THEN Hangs(fs, <<>>)
       ELSE IF s.res = "fatal" THEN Fatal(fs, <<>>)
       ELSE IF l.res = "err" THEN Returns(s.fs, <<Msg("Todo not found")>>)
       ELSE Returns(s.fs, <<Msg("Todo updated")>>)

\* changeTodoItemState, from the id that getTodoId returned
changeTodoItemState(fs, ds, cwd, toComplete, id) ==
    LET l == LoadTodo(fs, ds, cwd, id)
        todo == IF toComplete THEN complete(l.todo) ELSE uncomplete(l.todo)
        s == save(fs, ds, cwd, todo)
    IN IF l.res = "fatal" THEN Fatal(fs, <<>>)
       ELSE IF l.res = "hang" THEN Hangs(fs, <<>>)
       ELSE IF l.res = "err" THEN Returns(fs, <<Msg("Todo not found")>>)
       ELSE IF s.res = "fatal" THEN Fatal(fs, <<>>)
       ELSE Returns(s.fs, <<Msg("Todo updated")>>)

\* an editTodo that builds a fresh todo from the new title
editTodo_ResetsFlag(fs, ds, cwd, id, line) ==
    LET l == LoadTodo(fs, ds, cwd, id)
        asked == <<Line("old title: ", 0, l.todo.title), Msg("new title: ")>>
        todo == Todo(id, FALSE, getTodoTitle(line))
        s == save(fs, ds, cwd, todo)
    IN IF l.res = "fatal" THEN Fatal(fs, <<>>)
       ELSE IF l.res = "hang" THEN Hangs(fs, <<>>)
       ELSE IF l.res = "err" THEN Returns(fs, <<Msg("Todo not found")>>)
       ELSE IF s.res = "fatal" THEN Fatal(fs, asked)
       ELSE Returns(s.fs, asked \o <<Msg("Todo updated")>>)

\* editTodo, from the id that getTodoId returned, with the line typed
editTodo(fs, ds, cwd, id, line) ==
    LET l == LoadTodo(fs, ds, cwd, id)
        asked == <<Line("old title: ", 0, l.todo.title), Msg("new title: ")>>
        todo == update(l.todo, getTodoTitle(line))
        s == save(fs, ds, cwd, todo)
    IN IF l.res = "fatal" THEN Fatal(fs, <<>>)
       ELSE IF l.res = "hang" THEN Hangs(fs, <<>>)
       ELSE IF l.res = "err" THEN Returns(fs, <<Msg("Todo not found")>>)
       ELSE IF s.res = "fatal" THEN Fatal(fs, asked)
       ELSE Returns(s.fs, asked \o <<Msg("Todo updated")>>)

\* deleteTodo, from the id that getTodoId returned
deleteTodo(fs, ds, cwd, id) ==
    LET l == LoadTodo(fs, ds, cwd, id)
        d == delete(fs, ds, cwd, l.todo)
    IN IF l.res = "fatal" THEN Fatal(fs, <<>>)
       ELSE IF l.res = "hang" THEN Hangs(fs, <<>>)
       ELSE IF l.res = "err" THEN Returns(fs, <<Msg("Todo not found")>>)
       ELSE IF d.res = "fatal" THEN Fatal(fs, <<>>)
       ELSE IF d.res = "failed"
       THEN Returns(d.fs, <<Msg("Error deleting todo file"), Msg("Todo deleted")>>)
       ELSE Returns(d.fs, <<Msg("Todo deleted")>>)

\* a switch whose exit case is the default: every code without a handler
\* ends the process
main_DefaultExits(action) ==
    CASE action = 1 -> [h |-> "listTodos", a |-> TRUE, b |-> TRUE]
      [] action = 2 -> [h |-> "createTodoItem", a |-> FALSE, b |-> FALSE]
      [] action = 3 -> [h |-> "changeTodoItemState", a |-> TRUE, b |-> FALSE]
      [] action = 4 -> [h |-> "changeTodoItemState", a |-> FALSE, b |-> FALSE]
      [] action = 5 -> [h |-> "deleteTodo", a |-> FALSE, b |-> FALSE]
      [] action = 6 -> [h |-> "listTodos", a |-> TRUE, b |-> FALSE]
      [] action = 7 -> [h |-> "listTodos", a |-> FALSE, b |-> TRUE]
      [] action = 8 -> [h |-> "editTodo", a |-> FALSE, b |-> FALSE]
      [] action = 9 -> [h |-> "printHelp", a |-> FALSE, b |-> FALSE]
      [] OTHER -> [h |-> "exit", a |-> FALSE, b |-> FALSE]

\* the switch of main: the handler of an action code and its arguments
main(action) ==
    CASE action = 1 -> [h |-> "listTodos", a |-> TRUE, b |-> TRUE]
      [] action = 2 -> [h |-> "createTodoItem", a |-> FALSE, b |-> FALSE]
      [] action = 3 -> [h |-> "changeTodoItemState", a |-> TRUE, b |-> FALSE]
      [] action = 4 -> [h |-> "changeTodoItemState", a |-> FALSE, b |-> FALSE]
      [] action = 5 -> [h |-> "deleteTodo", a |-> FALSE, b |-> FALSE]
      [] action = 6 -> [h |-> "listTodos", a |-> TRUE, b |-> FALSE]
      [] action = 7 -> [h |-> "listTodos", a |-> FALSE, b |-> TRUE]
      [] action = 8 -> [h |-> "editTodo", a |-> FALSE, b |-> FALSE]
      [] action = 9 -> [h |-> "printHelp", a |-> FALSE, b |-> FALSE]
      [] action = 0 -> [h |-> "exit", a |-> FALSE, b |-> FALSE]
      [] OTHER -> [h |-> "unknown", a |-> FALSE, b |-> FALSE]

----------------------------------------------------------------------------
(* Inputs *)

\* the ids rand.Intn(RandRange) is taken to draw
DrawnIds == (0..(MaxDraw - 1)) \cup {RandRange - 1}

\* the titles typed
Titles == {Pattern(n) : n \in 0..MaxTitle} \cup {Pattern(ChunkSize + 1)}

\* a typed line: the title and its newline
TitleLines == {t \o <<10>> : t \in Titles}

Str_00 == <<48, 48>>

\* the tokens typed at "> ": the codes -1..10 and a word
ActionTokens == {Itoa(a) : a \in -1..10} \cup {Str_abc}

\* the tokens typed at "Select todo: ": the drawn ids, "00", and a word
IdTokens == {Itoa(i) : i \in DrawnIds} \cup {Str_00, Str_abc}

\* the input a step consumed: the prompt the token was typed at ("action" or
\* "id"), the action code of the handler it ran (-1: none), the token, the
\* title line typed (if any) and the id rand.Intn drew (if any)
Input(at, code, tok, line, id) ==
    [at |-> at, code |-> code, tok |-> tok, line |-> line, id |-> id]
NoInput == Input("none", -1, <<>>, <<>>, -1)

----------------------------------------------------------------------------
(* The directories the program is started in *)

EmptyDir == [n \in {} |-> SubDirectory]

\* 20 digits: matches ^([0-9]+)$ and does not fit an int
Str_TooLong == [i \in 1..20 |-> 57]

\* entries written by hand beside the program's own: todo "0", a file "00",
\* files "abc" and "0.txt", a file with a 20-digit name, a sub-directory "999"
ForeignDir ==
    LET name0 == Itoa(0)
        nameTxt == Itoa(0) \o <<46, 116, 120, 116>>
        nameSub == Itoa(RandRange - 1)
    IN [n \in {name0, Str_00, Str_abc, nameTxt, Str_TooLong, nameSub} |->
          IF n = name0 THEN RegularFile(<<1>> \o Pattern(1), FALSE)
          ELSE IF n = Str_00 THEN RegularFile(<<0>> \o Pattern(2), FALSE)
          ELSE IF n = nameSub THEN SubDirectory
          ELSE RegularFile(<<1>> \o Pattern(3), FALSE)]

\* todo "0" stored in a read-only file
ReadOnlyDir == [n \in {Itoa(0)} |-> RegularFile(<<0>> \o Pattern(1), TRUE)]

InitDirs == {EmptyDir, ForeignDir, ReadOnlyDir}

----------------------------------------------------------------------------
(* The command loop *)

Init ==
    /\ cwdOk \in BOOLEAN
    /\ dirState \in {"ok", "missing", "nowrite"}
    /\ files \in InitDirs
    /\ (~cwdOk => dirState = "missing")
    /\ (dirState = "missing" => files = EmptyDir)
    /\ pc = "prompt"
    /\ cmd = -1
    /\ out = <<Msg("Simple CLI TODO app")>> \o printHelp \o <<Prompt>>
    /\ exitStatus = -1
    /\ last = NoInput

\* a handler has run: its outcome, and the next "> " if the loop goes on
Finish(o) ==
    /\ files' = o.fs
    /\ pc' = o.pc
    /\ exitStatus' = o.st
    /\ out' = IF o.pc = "prompt" THEN o.out \o <<Prompt>> ELSE o.out
    /\ cmd' = -1
    /\ UNCHANGED <<dirState, cwdOk>>

\* main: the token does not parse as an action
BadAction(tok) ==
    /\ pc = "prompt"
    /\ ~Atoi(tok).ok
    /\ last' = Input("action", -1, tok, <<>>, -1)
    /\ Finish(Returns(files, <<Msg("Error reading action")>>))

\* main, cases 1, 6 and 7
ListAction(tok) ==
    /\ pc = "prompt"
    /\ Atoi(tok).ok
    /\ LET m == main(Atoi(tok).val)
       IN /\ m.h = "listTodos"
          /\ Finish(listTodos(files, dirState, cwdOk, m.a, m.b))
    /\ last' = Input("action", Atoi(tok).val, tok, <<>>, -1)

\* main, case 2
CreateAction(tok, line, id) ==
    /\ pc = "prompt"
    /\ Atoi(tok).ok
    /\ main(Atoi(tok).val).h = "createTodoItem"
    /\ last' = Input("action", Atoi(tok).val, tok, line, id)
    /\ Finish(createTodoItem(files, dirState, cwdOk, line, id))

\* main, cases 3, 4, 5 and 8: the handler starts with getTodoId, which
\* prompts and waits for a token
SelectAction(tok) ==
    /\ pc = "prompt"
    /\ Atoi(tok).ok
    /\ main(Atoi(tok).val).h \in {"changeTodoItemState", "deleteTodo", "editTodo"}
    /\ pc' = "selectTodo"
    /\ cmd' = Atoi(tok).val
    /\ out' = <<SelectPrompt>>
    /\ last' = Input("action", Atoi(tok).val, tok, <<>>, -1)
    /\ UNCHANGED <<files, dirState, cwdOk, exitStatus>>

\* main, case 9
HelpAction(tok) ==
    /\ pc = "prompt"
    /\ Atoi(tok).ok
    /\ main(Atoi(tok).val).h = "printHelp"
    /\ last' = Input("action", Atoi(tok).val, tok, <<>>, -1)
    /\ Finish(Returns(files, printHelp))

\* main, case 0
ExitAction(tok) ==
    /\ pc = "prompt"
    /\ Atoi(tok).ok
    /\ main(Atoi(tok).val).h = "exit"
    /\ last' = Input("action", Atoi(tok).val, tok, <<>>, -1)
    /\ Finish(Outcome(files, "exited", 0, <<Msg("Goodbye!")>>))

\* main, default
UnknownAction(tok) ==
    /\ pc = "prompt"
    /\ Atoi(tok).ok
    /\ main(Atoi(tok).val).h = "unknown"
    /\ last' = Input("action", Atoi(tok).val, tok, <<>>, -1)
    /\ Finish(Returns(files, <<Msg("Unknown action")>>))

\* a getTodoId that gives up on a token that does not parse: the command is
\* abandoned and the loop is back at "> "
BadId_Aborts(tok) ==
    /\ pc = "selectTodo"
    /\ ~getTodoId(tok).ok
    /\ last' = Input("id", cmd, tok, <<>>, -1)
    /\ Finish(Returns(files, <<Msg("Error reading id")>>))

\* getTodoId: the token does not parse, the loop prints the error and
\* prompts again
BadId(tok) ==
    /\ pc = "selectTodo"
    /\ ~getTodoId(tok).ok
    /\ out' = <<Msg("Error reading id"), SelectPrompt>>
    /\ last' = Input("id", cmd, tok, <<>>, -1)
    /\ UNCHANGED <<files, dirState, cwdOk, pc, cmd, exitStatus>>

\* changeTodoItemState after getTodoId
ChangeState(tok) ==
    /\ pc = "selectTodo"
    /\ main(cmd).h = "changeTodoItemState"
    /\ getTodoId(tok).ok
    /\ last' = Input("id", cmd, tok, <<>>, -1)
    /\ Finish(changeTodoItemState(files, dirState, cwdOk, main(cmd).a, getTodoId(tok).id))

\* editTodo after getTodoId
Edit(tok, line) ==
    /\ pc = "selectTodo"
    /\ main(cmd).h = "editTodo"
    /\ getTodoId(tok).ok
    /\ last' = Input("id", cmd, tok, line, -1)
    /\ Finish(editTodo(files, dirState, cwdOk, getTodoId(tok).id, line))

\* deleteTodo after getTodoId
Delete(tok) ==
    /\ pc = "selectTodo"
    /\ main(cmd).h = "deleteTodo"
    /\ getTodoId(tok).ok
    /\ last' = Input("id", cmd, tok, <<>>, -1)
    /\ Finish(deleteTodo(files, dirState, cwdOk, getTodoId(tok).id))

Next ==
    \/ \E tok \in ActionTokens : BadAction(tok)
    \/ \E tok \in ActionTokens : ListAction(tok)
    \/ \E tok \in ActionTokens, line \in TitleLines, id \in DrawnIds :
          CreateAction(tok, line, id)
    \/ \E tok \in ActionTokens : SelectAction(tok)
    \/ \E tok \in ActionTokens : HelpAction(tok)
    \/ \E tok \in ActionTokens : ExitAction(tok)
    \/ \E tok \in ActionTokens : UnknownAction(tok)
    \/ \E tok \in IdTokens : BadId(tok)
    \/ \E tok \in IdTokens : ChangeState(tok)
    \/ \E tok \in IdTokens, line \in TitleLines : Edit(tok, line)
    \/ \E tok \in IdTokens : Delete(tok)

Spec == Init /\ [][Next]_vars

----------------------------------------------------------------------------
(* Properties *)

Printed(text) == \E i \in 1..Len(out) : out[i].text = text
PrintedLine(line) == \E i \in 1..Len(out) : out[i] = line

\* the id the last step's token parsed to
LastId == getTodoId(last.tok).id

\* the ids and titles the round trip is tried on: the drawn ids, a negative
\* id, an id past the range of create; the typed titles, titles of one and
\* of two full chunks, a title with a newline, a tab, a zero byte and a
\* byte 255
RoundTripIds == DrawnIds \cup {-1, RandRange}
RoundTripTitles ==
    Titles \cup {Pattern(ChunkSize), Pattern(2 * ChunkSize), <<10, 9, 0, 255>>}

\* C1: in every directory the program can be in, for every Todo (id,
\* completed, title), a save that does not fail followed by LoadTodo of the
\* same id returns that id, that flag and that title, byte for byte.
C1_SaveLoadRoundTrip ==
    \A id \in RoundTripIds, c \in BOOLEAN, t \in RoundTripTitles :
        LET todo == Todo(id, c, t)
            s == save(files, dirState, cwdOk, todo)
        IN s.res = "ok" =>
             LoadTodo(s.fs, dirState, cwdOk, id) = [res |-> "ok", todo |-> todo]

\* C1 witness: create has saved a title longer than one chunk and the todo
\* loads back with it
C1_Witness ==
    /\ pc = "prompt"
    /\ last.at = "action"
    /\ last.code = 2
    /\ last.line = Pattern(ChunkSize + 1) \o <<10>>
    /\ LoadTodo(files, dirState, cwdOk, last.id)
         = [res |-> "ok", todo |-> Todo(last.id, FALSE, Pattern(ChunkSize + 1))]

\* C2 (as claimed): once the delete command has printed "Todo deleted" for a
\* todo that loaded, LoadTodo of that id returns the not-found error.
C2_DeleteThenLoad ==
    (last.at = "id" /\ last.code = 5 /\ Printed("Todo deleted"))
        => LoadTodo(files, dirState, cwdOk, LastId).res = "err"

\* the step that hands an id with no file to complete, uncomplete, edit or
\* delete (the working directory being resolvable)
NotFoundStep ==
    /\ pc = "selectTodo"
    /\ last'.at = "id"
    /\ getTodoId(last'.tok).ok
    /\ cwdOk
    /\ ~CanOpen(files, dirState, getFilePath(getTodoId(last'.tok).id))

\* C3: complete, uncomplete, edit and delete, given an id for which no file
\* exists, print "Todo not found", create no file, leave every file as it
\* was, and the loop is back at the action prompt with the process running.
C3_NotFoundNoEffect ==
    [][NotFoundStep =>
          /\ out' = <<Msg("Todo not found"), Prompt>>
          /\ files' = files
          /\ pc' = "prompt"
          /\ exitStatus' = -1]_vars

\* C3 witness: a command has answered "Todo not found" in a directory that
\* holds other todos
C3_Witness ==
    /\ Printed("Todo not found")
    /\ pc = "prompt"
    /\ last.code \in {3, 4, 5, 8}
    /\ DOMAIN files # {}
    /\ ~Exists(files, getFilePath(LastId))

\* C4 (as claimed): after an id token that does not parse, the command is
\* over: the loop is at the action prompt and the id was not asked for again.
C4_BadIdAbortsCommand ==
    (last.at = "id" /\ ~getTodoId(last.tok).ok)
        => (pc = "prompt" /\ ~Printed("Select todo: "))

\* C4 (amended): in complete, uncomplete, delete and edit, an id token that
\* does not parse prints an error and the id is asked for again; the command
\* stays where it was, inside getTodoId, and the store is not touched.
C4_BadIdAsksAgain ==
    [][(pc = "selectTodo" /\ last'.at = "id" /\ ~getTodoId(last'.tok).ok) =>
          /\ out' = <<Msg("Error reading id"), SelectPrompt>>
          /\ pc' = "selectTodo"
          /\ cmd' = cmd
          /\ files' = files
          /\ exitStatus' = -1]_vars

\* C4 witness: an id token was refused while todos are stored
C4_Witness ==
    /\ Printed("Error reading id")
    /\ pc = "selectTodo"
    /\ cmd \in {3, 4, 5, 8}
    /\ DOMAIN files # {}

\* the description the help menu prints for an action code
MenuText(code) ==
    printHelp[CHOOSE i \in 2..Len(printHelp) : printHelp[i].n = code].text

\* the todos a listing finds in the directory as it is
Listed == loadAllTodos(files, dirState, cwdOk).todos

\* C5 (as claimed): every action code does what the help menu says of it.
C5_MenuMatchesDispatch ==
    (last.at = "action" /\ last.code \in 0..9) =>
       LET text == MenuText(last.code)
       IN /\ (text = "List all TODOs" /\ pc = "prompt") =>
                out = Block("uncompleted todos:", SelectSeq(Listed, IsUncompleted))
                      \o <<Msg("")>>
                      \o Block("completed todos:", SelectSeq(Listed, IsCompleted))
                      \o <<Prompt>>
          /\ (text = "List completed TODOs" /\ pc = "prompt") =>
                out = Block("completed todos:", SelectSeq(Listed, IsCompleted))
                      \o <<Prompt>>
          /\ (text = "List uncompleted TODOs" /\ pc = "prompt") =>
                out = Block("uncompleted todos:", SelectSeq(Listed, IsUncompleted))
                      \o <<Prompt>>
          /\ (text = "Add new TODO" /\ pc = "prompt") => Printed("Saved with id: ")
          /\ text = "Complete TODO" =>
                pc = "selectTodo" /\ main(cmd) = main(3)
          /\ text = "Uncomplete TODO" =>
                pc = "selectTodo" /\ main(cmd) = main(4)
          /\ text = "Delete TODO" => pc = "selectTodo" /\ main(cmd).h = "deleteTodo"
          /\ text = "Edit TODO" => pc = "selectTodo" /\ main(cmd).h = "editTodo"
          /\ text = "Show this help" => out = printHelp \o <<Prompt>>
          /\ text = "Exit" => pc = "exited" /\ exitStatus = 0

\* the title typed on the last line: the line without its newline
TypedTitle == SubSeq(last.line, 1, Len(last.line) - 1)

\* C6: when create, given title t, returns to the loop, it has printed an id
\* i with 0 <= i < 1000, the file of i holds exactly (completed = false,
\* title = t), and LoadTodo(i) returns that record.
C6_CreatePersists ==
    (last.at = "action" /\ last.code = 2 /\ pc = "prompt") =>
       \E k \in 1..Len(out) :
          /\ out[k].text = "Saved with id: "
          /\ LET i == out[k].n
             IN /\ 0 <= i /\ i < 1000
                /\ Exists(files, Itoa(i))
                /\ files[Itoa(i)].data = <<0>> \o TypedTitle
                /\ LoadTodo(files, dirState, cwdOk, i)
                     = [res |-> "ok", todo |-> Todo(i, FALSE, TypedTitle)]

\* C6 witness: create has drawn the largest id and reported it, with a title
\* that is not empty
C6_Witness ==
    /\ last.at = "action"
    /\ last.code = 2
    /\ pc = "prompt"
    /\ PrintedLine(Line("Saved with id: ", RandRange - 1, <<>>))
    /\ TypedTitle # <<>>
    /\ Exists(files, Itoa(RandRange - 1))

\* how the process came to end
ExitedByAction0 == last.at = "action" /\ last.code = 0 /\ exitStatus = 0
NoWorkingDir == exitStatus = 1 /\ ~cwdOk /\ last.code \in 1..8
CreateFailed ==
    /\ exitStatus = 1
    /\ last.code \in {2, 3, 4, 8}
    /\ ~CanCreate(files, dirState,
                  getFilePath(IF last.code = 2 THEN last.id ELSE LastId))
ListFailed == exitStatus = 1 /\ last.code \in {1, 6, 7} /\ dirState = "missing"

\* C7 (as claimed): the process ends only through action 0 or through one
\* of the two fatal failures; a failure to list the todos directory is
\* reported and the loop keeps running.
C7_OnlyTwoFatalFailures ==
    /\ pc = "exited" => (ExitedByAction0 \/ NoWorkingDir \/ CreateFailed)
    /\ (last.at = "action" /\ last.code \in {1, 6, 7} /\ cwdOk /\ dirState = "missing")
          => pc = "prompt"

\* C7 (amended): the process ends only through action 0 (status 0) or, with
\* status 1, through one of three fatal failures: the working directory
\* cannot be resolved, a file cannot be created for writing, the todos
\* directory cannot be listed.  Not-found, a token that does not parse, an
\* unknown action and a failed deletion are reported and the loop goes on.
C7_ThreeFatalFailures ==
    /\ pc = "exited" =>
          (ExitedByAction0 \/ NoWorkingDir \/ CreateFailed \/ ListFailed)
    /\ (\/ Printed("Todo not found")
        \/ Printed("Error reading action")
        \/ Printed("Error reading id")
        \/ Printed("Unknown action")
        \/ Printed("Error deleting todo file"))
          => (pc \in {"prompt", "selectTodo"} /\ exitStatus = -1)

\* C7 witness: a listing has ended the process because the todos directory
\* could not be read
C7_Witness == pc = "exited" /\ cwdOk /\ ListFailed

PrintedIn(lines, text) == \E i \in 1..Len(lines) : lines[i].text = text

\* the step in which a command reaches save and os.Create cannot succeed
SaveFailsStep ==
    \/ /\ pc = "prompt"
       /\ last'.at = "action"
       /\ last'.code = 2
       /\ ~CanCreate(files, dirState, getFilePath(last'.id))
    \/ /\ pc = "selectTodo"
       /\ last'.at = "id"
       /\ last'.code \in {3, 4, 8}
       /\ getTodoId(last'.tok).ok
       /\ LoadTodo(files, dirState, cwdOk, getTodoId(last'.tok).id).res = "ok"
       /\ ~CanCreate(files, dirState, getFilePath(getTodoId(last'.tok).id))

\* C8: whenever create, complete, uncomplete or edit reaches save and the
\* file cannot be created, the process ends with a non-zero status, no
\* success message is printed and the loop does not prompt again.
C8_SaveFatal ==
    [][SaveFailsStep =>
          /\ pc' = "exited"
          /\ exitStatus' > 0
          /\ ~PrintedIn(out', "Saved with id: ")
          /\ ~PrintedIn(out', "Todo updated")
          /\ ~PrintedIn(out', "> ")
          /\ files' = files]_vars

\* C8 witness: complete, uncomplete or edit loaded a todo and ended the
\* process in save
C8_Witness ==
    /\ pc = "exited"
    /\ exitStatus = 1
    /\ cwdOk
    /\ last.at = "id"
    /\ last.code \in {3, 4, 8}
    /\ Exists(files, getFilePath(LastId))

\* C9 (as claimed): with the working directory resolved, LoadTodo returns a
\* Todo or an error whatever is at the path, and an error when the path
\* opens but cannot be read (a directory).
C9_LoadAlwaysReturns ==
    cwdOk =>
       \A id \in RoundTripIds :
          LET l == LoadTodo(files, dirState, cwdOk, id)
              name == getFilePath(id)
          IN /\ l.res \in {"ok", "err"}
             /\ (Exists(files, name) /\ files[name].isDir) => l.res = "err"

\* an entry that the enumeration is to return: a file, not a directory,
\* with a name of digits that parses as an id
EligibleEntry(name) == ~files[name].isDir /\ MatchDigits(name) /\ Atoi(name).ok

\* the flag and title stored in an entry
OwnContent(name) ==
    LET data == files[name].data
    IN [completed |-> Len(data) > 0 /\ FlagOf(data[1]),
        title |-> IF Len(data) > 0 THEN Tail(data) ELSE <<>>]

\* C10 (as claimed): loadAllTodos returns one Todo per eligible entry, each
\* with the flag and title of that entry, none twice, and nothing else.
C10_EnumerationFiltering ==
    LET r == loadAllTodos(files, dirState, cwdOk)
        eligible == SelectSeq(SortedNames(DOMAIN files), EligibleEntry)
    IN r.res = "ok" =>
         [i \in 1..Len(r.todos) |->
             [completed |-> r.todos[i].completed, title |-> r.todos[i].title]]
         = [i \in 1..Len(eligible) |-> OwnContent(eligible[i])]

\* the step that reads, at "> ", a token that is no integer or an integer
\* outside 0..9
BadActionStep ==
    /\ pc = "prompt"
    /\ last'.at = "action"
    /\ (~Atoi(last'.tok).ok \/ Atoi(last'.tok).val \notin 0..9)

\* C11: an action token that does not parse prints an error, an integer
\* outside 0..9 prints "Unknown action"; either way the loop prompts again,
\* the process does not exit and no todo file is created, changed or removed.
C11_BadActionHarmless ==
    [][BadActionStep =>
          /\ out' = <<Msg(IF Atoi(last'.tok).ok THEN "Unknown action"
                          ELSE "Error reading action"), Prompt>>
          /\ pc' = "prompt"
          /\ exitStatus' = -1
          /\ files' = files]_vars

\* C11 witness: an integer outside 0..9 was answered with "Unknown action"
\* while todos are stored
C11_Witness ==
    /\ last.at = "action"
    /\ Atoi(last.tok).ok
    /\ Atoi(last.tok).val \notin 0..9
    /\ Printed("Unknown action")
    /\ pc = "prompt"
    /\ DOMAIN files # {}

----------------------------------------------------------------------------
(* The program started in a directory written by other hands, and used for
   listing only: what LoadTodo and listTodos make of any content *)

\* one todo "0" whose flag byte is any byte
AnyFlagDirs ==
    {[n \in {Itoa(0)} |-> RegularFile(<<b>> \o t, FALSE)] : b \in 0..255, t \in Titles}

\* todos 1..MaxListed, each absent ("none"), completed ("done") or not ("open")
ListedDirs ==
    {[n \in {Itoa(i) : i \in {j \in 1..MaxListed : f[j] # "none"}} |->
         RegularFile(<<IF f[Atoi(n).val] = "done" THEN 1 ELSE 0>>
                     \o Pattern(Atoi(n).val), FALSE)] :
       f \in [1..MaxListed -> {"none", "done", "open"}]}

ReadInit ==
    /\ cwdOk = TRUE
    /\ dirState = "ok"
    /\ files \in AnyFlagDirs \cup ListedDirs
    /\ pc = "prompt"
    /\ cmd = -1
    /\ out = <<Msg("Simple CLI TODO app")>> \o printHelp \o <<Prompt>>
    /\ exitStatus = -1
    /\ last = NoInput

ReadNext == \E tok \in ActionTokens : ListAction(tok)

SpecRead == ReadInit /\ [][ReadNext]_vars

\* byte b with bit k changed
FlipBit(b, k) == IF (b \div (2 ^ k)) % 2 = 1 THEN b - 2 ^ k ELSE b + 2 ^ k

\* the directory with byte 0 of one file replaced
WithByte0(fs, name, b) == [fs EXCEPT ![name].data[1] = b]

\* C12: for every stored todo file and every value b of its byte 0, the
\* decoded flag is (b mod 2 = 1) and the decoded title is the bytes after
\* byte 0; changing any bit of byte 0 other than bit 0 changes neither.
C12_FlagIsolation ==
    \A name \in DOMAIN files :
       LET data == files[name].data
           id == Atoi(name).val
           l == LoadTodo(files, dirState, cwdOk, id)
       IN (Len(data) >= 1 /\ getFilePath(id) = name) =>
            /\ l = [res |-> "ok",
                    todo |-> Todo(id, data[1] % 2 = 1, Tail(data))]
            /\ \A k \in 1..7 :
                  LoadTodo(WithByte0(files, name, FlipBit(data[1], k)),
                           dirState, cwdOk, id) = l

\* C12 witness: a todo whose flag byte is 254 (every bit but bit 0) was
\* listed as uncompleted, with its title
C12_Witness ==
    /\ Exists(files, Itoa(0))
    /\ files[Itoa(0)].data = <<254>> \o Pattern(ChunkSize + 1)
    /\ last.at = "action"
    /\ last.code = 1
    /\ out = Block("uncompleted todos:", <<Todo(0, FALSE, Pattern(ChunkSize + 1))>>)
             \o <<Msg("")>> \o Block("completed todos:", <<>>) \o <<Prompt>>

\* the loaded todos at the places of all that are (or are not) completed
PlacesOf(todos, flag) == {i \in 1..Len(todos) : todos[i].completed = flag}

\* how many lines of a printed text are the blank line
BlankLines(lines) == Cardinality({i \in 1..Len(lines) : lines[i] = Msg("")})

\* lines h+1..h+n are n todo lines, and no todo line follows them
TodoLinesAfter(lines, h, n) ==
    /\ Len(lines) >= h + n
    /\ \A i \in 1..n : lines[h + i].text = "todo"
    /\ (Len(lines) > h + n => lines[h + n + 1].text # "todo")

\* C13: with both flags listTodos prints the uncompleted block, one blank
\* line, the completed block; with one flag that block alone and no blank
\* line; with none nothing.  Each block is a header whose count is the
\* number of todo lines that follow it.
C13_ListingModes ==
    \A a \in BOOLEAN, b \in BOOLEAN :
       LET o == listTodos(files, dirState, cwdOk, a, b)
           nU == Cardinality(PlacesOf(Listed, FALSE))
           nC == Cardinality(PlacesOf(Listed, TRUE))
           hC == IF a THEN nU + 3 ELSE 1
       IN o.pc = "prompt" =>
            /\ Len(o.out) = (IF a THEN 1 + nU ELSE 0) + (IF a /\ b THEN 1 ELSE 0)
                            + (IF b THEN 1 + nC ELSE 0)
            /\ BlankLines(o.out) = IF a /\ b THEN 1 ELSE 0
            /\ a => /\ o.out[1] = Line("uncompleted todos:", nU, <<>>)
                    /\ TodoLinesAfter(o.out, 1, nU)
            /\ (a /\ b) => o.out[nU + 2] = Msg("")
            /\ b => /\ o.out[hC] = Line("completed todos:", nC, <<>>)
                    /\ TodoLinesAfter(o.out, hC, nC)

\* C13 witness: action 1 has printed two blocks that are not empty with the
\* blank line between them
C13_Witness ==
    /\ last.at = "action"
    /\ last.code = 1
    /\ pc = "prompt"
    /\ PlacesOf(Listed, FALSE) # {}
    /\ PlacesOf(Listed, TRUE) # {}
    /\ out[Cardinality(PlacesOf(Listed, FALSE)) + 2] = Msg("")

\* seq holds exactly the elements of todos at the places P, in their order
KeepsOrder(seq, todos, P) ==
    \E f \in [1..Len(seq) -> P] :
       /\ \A i \in 1..Len(seq) : seq[i] = todos[f[i]]
       /\ \A i \in 1..Len(seq), j \in 1..Len(seq) : i < j => f[i] < f[j]
       /\ \A p \in P : \E i \in 1..Len(seq) : f[i] = p

\* C14: listTodos puts every loaded todo in exactly one bucket, the
\* completed one iff its flag is true; the bucket sizes sum to the number
\* loaded; each bucket keeps the order of the enumeration.
C14_PartitionCorrect ==
    LET p == PartitionTodos(Listed, <<>>, <<>>)
    IN /\ Len(p.completed) + Len(p.uncompleted) = Len(Listed)
       /\ \A i \in 1..Len(p.completed) : p.completed[i].completed
       /\ \A i \in 1..Len(p.uncompleted) : ~p.uncompleted[i].completed
       /\ KeepsOrder(p.completed, Listed, PlacesOf(Listed, TRUE))
       /\ KeepsOrder(p.uncompleted, Listed, PlacesOf(Listed, FALSE))

\* C14 witness: todos 1 (completed), 2 (not), 3 (completed) were listed:
\* 2 alone, then 1 before 3
C14_Witness ==
    /\ last.at = "action"
    /\ last.code = 1
    /\ out = << Line("uncompleted todos:", 1, <<>>), Line("todo", 2, Pattern(2)),
                Msg(""),
                Line("completed todos:", 2, <<>>), Line("todo", 1, Pattern(1)),
                Line("todo", 3, Pattern(3)), Prompt >>

----------------------------------------------------------------------------
(* Properties of the commands that write *)

\* every entry but the one named is what it was, and no entry has come or gone
OthersUnchanged(name) ==
    /\ DOMAIN files' = DOMAIN files
    /\ \A n \in DOMAIN files \ {name} : files'[n] = files[n]

\* the step in which create draws an id whose file exists and can be written
CollisionStep ==
    /\ pc = "prompt"
    /\ last'.at = "action"
    /\ last'.code = 2
    /\ cwdOk
    /\ Exists(files, getFilePath(last'.id))
    /\ CanCreate(files, dirState, getFilePath(last'.id))

\* C15: when create draws an id that already has a file, it keeps that id:
\* the record becomes (completed = false, the new title), the number of
\* stored todos does not grow and every other file is unchanged.
C15_CollisionOverwrites ==
    [][CollisionStep =>
          LET name == getFilePath(last'.id)
              typed == SubSeq(last'.line, 1, Len(last'.line) - 1)
          IN /\ out' = <<Msg("title: "), Line("Saved with id: ", last'.id, <<>>),
                         Prompt>>
             /\ files'[name] = RegularFile(<<0>> \o typed, FALSE)
             /\ Cardinality(DOMAIN files') = Cardinality(DOMAIN files)
             /\ OthersUnchanged(name)]_vars

\* C15 witness: create has succeeded in a directory that takes no new
\* entries, so on the file of a todo that was there, beside other files
C15_Witness ==
    /\ dirState = "nowrite"
    /\ last.at = "action"
    /\ last.code = 2
    /\ pc = "prompt"
    /\ Printed("Saved with id: ")
    /\ files[getFilePath(last.id)].data = <<0>> \o TypedTitle
    /\ Cardinality(DOMAIN files) > 1

\* the step in which complete, uncomplete or edit ends with "Todo updated"
UpdatedStep ==
    /\ pc = "selectTodo"
    /\ last'.at = "id"
    /\ last'.code \in {3, 4, 8}
    /\ getTodoId(last'.tok).ok
    /\ pc' = "prompt"
    /\ PrintedIn(out', "Todo updated")

\* C16: a successful complete (uncomplete) on id i sets the flag of record
\* i to true (false) and keeps its title; a successful edit sets its title
\* and keeps its flag; the files of all other ids and the set of ids are
\* unchanged.
C16_MutationFrame ==
    [][UpdatedStep =>
          LET id == getTodoId(last'.tok).id
              before == LoadTodo(files, dirState, cwdOk, id)
              after == LoadTodo(files', dirState, cwdOk, id)
              typed == SubSeq(last'.line, 1, Len(last'.line) - 1)
          IN /\ before.res = "ok"
             /\ after.res = "ok"
             /\ last'.code = 3 =>
                   after.todo = Todo(id, TRUE, before.todo.title)
             /\ last'.code = 4 =>
                   after.todo = Todo(id, FALSE, before.todo.title)
             /\ last'.code = 8 =>
                   after.todo = Todo(id, before.todo.completed, typed)
             /\ OthersUnchanged(getFilePath(id))]_vars

\* C16 witness: a completed todo was given a new title, beside another file,
\* and is still completed
C16_Witness ==
    /\ last.at = "id"
    /\ last.code = 8
    /\ Printed("Todo updated")
    /\ LoadTodo(files, dirState, cwdOk, LastId)
         = [res |-> "ok", todo |-> Todo(LastId, TRUE, TypedTitle)]
    /\ Cardinality(DOMAIN files) > 1

----------------------------------------------------------------------------
(* The program started in an empty todos directory that can be written *)

FreshInit ==
    /\ Init
    /\ cwdOk
    /\ dirState = "ok"
    /\ files = EmptyDir

SpecFresh == FreshInit /\ [][Next]_vars

\* every entry is a file named by the decimal form of an id in 0..999, no
\* two entries have the same id, and each holds a flag byte 0x00 or 0x01
StoreShape(fs) ==
    /\ \A n \in DOMAIN fs :
          /\ ~fs[n].isDir
          /\ Atoi(n).ok
          /\ Atoi(n).val >= 0 /\ Atoi(n).val < RandRange
          /\ n = Itoa(Atoi(n).val)
          /\ Len(fs[n].data) >= 1
          /\ fs[n].data[1] \in {0, 1}
    /\ \A n1 \in DOMAIN fs, n2 \in DOMAIN fs :
          Atoi(n1).val = Atoi(n2).val => n1 = n2

\* C17: from an empty todos directory, with no write failure, after every
\* command each file is named by the decimal form of an id in 0..999, there
\* is one file per id at most, each file has a first byte 0x00 or 0x01; an
\* id appears only by create and disappears only by delete.
C17_StoreInvariant ==
    [][/\ StoreShape(files')
       /\ (DOMAIN files' \ DOMAIN files # {}) =>
             (pc = "prompt" /\ last'.at = "action" /\ last'.code = 2)
       /\ (DOMAIN files \ DOMAIN files' # {}) =>
             (pc = "selectTodo" /\ last'.at = "id" /\ last'.code = 5)]_vars

\* C17 witness: after creates, a complete and a delete, one completed todo
\* is left
C17_Witness ==
    /\ last.at = "id"
    /\ last.code = 5
    /\ Printed("Todo deleted")
    /\ Cardinality(DOMAIN files) = 1
    /\ \E n \in DOMAIN files : files[n].data[1] = 1

----------------------------------------------------------------------------
(* Read-only actions *)

ReadOnlyCodes == {1, 6, 7, 9}

\* the step consumed the action token of a listing or of the help
ReadOnlyStep ==
    /\ pc = "prompt"
    /\ last'.at = "action"
    /\ last'.code \in ReadOnlyCodes

\* C18: the listing actions 1, 6, 7 and the help action 9 never create,
\* modify or remove an entry of the todos directory, in any directory state
\* and for any combination of the two listing flags.
C18_ReadOnlyActions ==
    [][ReadOnlyStep =>
          /\ files' = files
          /\ \A includeUncomplete \in BOOLEAN, includeComplete \in BOOLEAN :
                listTodos(files, dirState, cwdOk,
                          includeUncomplete, includeComplete).fs = files]_vars

\* C18 witness: a listing has printed todos of a directory that also holds
\* entries which are not todos
C18_Witness ==
    /\ last.at = "action"
    /\ last.code \in {1, 6, 7}
    /\ Printed("completed todos:")
    /\ \E n \in DOMAIN files : files[n].isDir
    /\ \E n \in DOMAIN files : ~files[n].isDir

----------------------------------------------------------------------------
(* Completing and uncompleting *)

\* the ids whose file LoadTodo opens and reads to its end
ExistingIds(fs) ==
    {id \in {Atoi(n).val : n \in {m \in DOMAIN fs : Atoi(m).ok}} :
        LoadTodo(fs, dirState, cwdOk, id).res = "ok"}

\* changeTodoItemState on the directory fs
Changed(fs, toComplete, id) ==
    changeTodoItemState(fs, dirState, cwdOk, toComplete, id)

\* a second run of the same state change leaves the directory of the first
Idempotent(toComplete, id) ==
    LET once == Changed(files, toComplete, id)
        twice == Changed(once.fs, toComplete, id)
    IN once.pc = "prompt" =>
          /\ twice.pc = "prompt"
          /\ twice.fs = once.fs

\* the opposite state change after a state change brings back the record,
\* and the file's bytes when its flag byte was one that save writes
Reversible(id) ==
    LET name == getFilePath(id)
        before == LoadTodo(files, dirState, cwdOk, id)
        there == Changed(files, ~before.todo.completed, id)
        back == Changed(there.fs, before.todo.completed, id)
    IN there.pc = "prompt" =>
          /\ LoadTodo(there.fs, dirState, cwdOk, id).todo.completed
                = ~before.todo.completed
          /\ back.pc = "prompt"
          /\ LoadTodo(back.fs, dirState, cwdOk, id) = before
          /\ DOMAIN back.fs = DOMAIN files
          /\ \A n \in DOMAIN files \ {name} : back.fs[n] = files[n]
          /\ files[name].data[1] \in {0, 1} =>
                back.fs[name].data = files[name].data

\* the step ran complete or uncomplete on a todo that already was in that
\* state, and returned
RepeatedStep ==
    /\ pc = "selectTodo"
    /\ last'.at = "id"
    /\ last'.code \in {3, 4}
    /\ PrintedIn(out', "Todo updated")
    /\ LoadTodo(files, dirState, cwdOk, getTodoId(last'.tok).id).res = "ok"
    /\ LoadTodo(files, dirState, cwdOk, getTodoId(last'.tok).id).todo.completed
          = (last'.code = 3)

\* C19: for an existing id, complete run twice leaves the directory that
\* complete run once leaves, and so does uncomplete; complete then uncomplete
\* on an uncompleted todo, and uncomplete then complete on a completed one,
\* bring back the original record.
C19_IdempotentReversible ==
    /\ [](\A id \in ExistingIds(files) :
             /\ Idempotent(TRUE, id)
             /\ Idempotent(FALSE, id)
             /\ Reversible(id))
    /\ [][RepeatedStep => files' = files]_vars

\* C19 witness: complete has just run on a todo, which is now completed
C19_Witness ==
    /\ last.at = "id"
    /\ last.code = 3
    /\ Printed("Todo updated")
    /\ LastId \in ExistingIds(files)
    /\ LoadTodo(files, dirState, cwdOk, LastId).todo.completed
    /\ Len(LoadTodo(files, dirState, cwdOk, LastId).todo.title) > 0

====
